---- MODULE Spec2Model ----
(***************************************************************************)
(* Model of the OOF schema resolution pipeline, src/src/schemas/system.rs: *)
(* from_over_obj and the parsers it chains (schema header, meta block,     *)
(* using table, extends list), over documents read through the `over`      *)
(* crate's fallible typed accessors.                                       *)
(***************************************************************************)
EXTENDS Integers, Sequences, FiniteSets, TLC

VARIABLES doc, pc, oof_instruction_obj, oof_schema, oof_meta, target, using, extends, ret

vars == <<doc, pc, oof_instruction_obj, oof_schema, oof_meta, target, using, extends, ret>>

(***************************************************************************)
(* Bounds of the model.                                                    *)
(***************************************************************************)
\* longest top-level extends array enumerated
MaxExtends == 2
\* largest number of entries of a top-level using block enumerated
MaxUsing == 2

(***************************************************************************)
(* Document values (over::value::Value).  An object's payload is a         *)
(* function from its keys to values; a key that is absent is outside the   *)
(* function's domain.  An object that the code iterates also carries the   *)
(* order in which iter() yields its keys.  A license string is a sequence  *)
(* of characters, because the code changes its case; every other string is *)
(* compared whole.                                                         *)
(***************************************************************************)
StrV(s) == [t |-> "Str", v |-> s]
IntV(n) == [t |-> "Int", v |-> n]
BoolV(b) == [t |-> "Bool", v |-> b]
ObjV(f) == [t |-> "Obj", v |-> f]
ObjIter(f, order) == [t |-> "Obj", v |-> f, order |-> order]
ArrV(s) == [t |-> "Arr", v |-> s]

\* marks a key left out of an object under construction
Absent == [t |-> "Absent"]
\* the object holding the keys of record r that are not Absent
MkObj(r) == ObjV([k \in {x \in DOMAIN r : r[x] # Absent} |-> r[k]])

(***************************************************************************)
(* Result and Option.                                                      *)
(***************************************************************************)
Ok(x) == [ok |-> TRUE, val |-> x]
Err(e) == [ok |-> FALSE, err |-> e]
Some(x) == [some |-> TRUE, val |-> x]
None == [some |-> FALSE]
\* Result::ok()
ResultOk(r) == IF r.ok THEN Some(r.val) ELSE None
\* a local before and after its let, the return value before and after the return
Unassigned == [assigned |-> FALSE]
Assigned(x) == [assigned |-> TRUE, val |-> x]

\* the accessor's own error, which every caller discards (Err(_))
OverError == "over::Error"

(***************************************************************************)
(* The accessors of over::obj::Obj and over::value::Value.                 *)
(***************************************************************************)
get_obj(o, key) ==
    IF key \in DOMAIN o.v /\ o.v[key].t = "Obj" THEN Ok(o.v[key]) ELSE Err(OverError)

get_str(o, key) ==
    IF key \in DOMAIN o.v /\ o.v[key].t = "Str" THEN Ok(o.v[key].v) ELSE Err(OverError)

get_bool(o, key) ==
    IF key \in DOMAIN o.v /\ o.v[key].t = "Bool" THEN Ok(o.v[key].v) ELSE Err(OverError)

get_arr(o, key) ==
    IF key \in DOMAIN o.v /\ o.v[key].t = "Arr" THEN Ok(o.v[key].v) ELSE Err(OverError)

value_get_obj(val) == IF val.t = "Obj" THEN Ok(val) ELSE Err(OverError)

value_get_str(val) == IF val.t = "Str" THEN Ok(val.v) ELSE Err(OverError)

\* Obj::iter(): the (key, value) pairs in iteration order
obj_iter(o) == [i \in 1..Len(o.order) |-> <<o.order[i], o.v[o.order[i]]>>]

(***************************************************************************)
(* Problem texts and SchemaParsingError.                                   *)
(***************************************************************************)
COULD_NOT_BE_PARSED_AS_STRING == "could not be parsed as a String"
COULD_NOT_BE_PARSED_AS_OBJ == "could not be parsed as an Object"
COULD_NOT_BE_PARSED_AS_ARR == "could not be parsed as a homogenous Array"
COULD_NOT_DETERMINE_REPO_TYPE == "could not determine repo type (eg. git)"
MAINTAINER_OR_HOMEPAGE_REQUIRED == "meta.maintainer and/or meta.homepage is required"

Generic(text) == [e |-> "Generic", text |-> text]
MissingOofInstruction == [e |-> "MissingOofInstruction"]
MalformedOofInstruction(field_name, problem) ==
    [e |-> "MalformedOofInstruction", field_name |-> field_name, problem |-> problem]
UnsupportedSchemaType(schema_type) ==
    [e |-> "UnsupportedSchemaType", schema_type |-> schema_type]
UnsupportedSchemaVersion(schema_type, requested_version) ==
    [e |-> "UnsupportedSchemaVersion", schema_type |-> schema_type,
     requested_version |-> requested_version]
ExtendingNonExistantRepo(repo) == [e |-> "ExtendingNonExistantRepo", repo |-> repo]

\* OofFileSchema
System20210801 == "System20210801"
\* TargetType
TargetSelf == [target_type |-> "TargetSelf"]

(***************************************************************************)
(* Characters and String::to_lowercase.                                    *)
(***************************************************************************)
UpperLetters == <<"A", "B", "C", "D", "E", "F", "G", "H", "I", "J", "K", "L", "M",
                  "N", "O", "P", "Q", "R", "S", "T", "U", "V", "W", "X", "Y", "Z">>
LowerLetters == <<"a", "b", "c", "d", "e", "f", "g", "h", "i", "j", "k", "l", "m",
                  "n", "o", "p", "q", "r", "s", "t", "u", "v", "w", "x", "y", "z">>

char_to_lowercase(c) ==
    IF \E i \in 1..Len(UpperLetters) : UpperLetters[i] = c
    THEN LowerLetters[CHOOSE i \in 1..Len(UpperLetters) : UpperLetters[i] = c]
    ELSE c

to_lowercase(s) == [i \in 1..Len(s) |-> char_to_lowercase(s[i])]

\* the literals "restricted" and "proprietary" of the license match
LitRestricted == <<"r", "e", "s", "t", "r", "i", "c", "t", "e", "d">>
LitProprietary == <<"p", "r", "o", "p", "r", "i", "e", "t", "a", "r", "y">>

\* OofFileLicense
Restricted == [license |-> "Restricted"]
SPDXIdentifier(s) == [license |-> "SPDXIdentifier", id |-> s]

(***************************************************************************)
(* parse_oof_schema_type                                                   *)
(***************************************************************************)
\* mutant: reads schema.version before it looks at schema.type
parse_oof_schema_type_version_first(oof) ==
    LET schema == get_obj(oof, "schema") IN
    IF ~schema.ok
    THEN Err(MalformedOofInstruction("oof.schema", COULD_NOT_BE_PARSED_AS_OBJ))
    ELSE LET version == get_str(schema.val, "version")
             schema_type == get_str(schema.val, "type") IN
         IF ~version.ok
         THEN Err(MalformedOofInstruction("oof.schema.version", COULD_NOT_BE_PARSED_AS_STRING))
         ELSE IF ~schema_type.ok
         THEN Err(MalformedOofInstruction("oof.schema.type", COULD_NOT_BE_PARSED_AS_STRING))
         ELSE IF schema_type.val # "system"
         THEN Err(UnsupportedSchemaType(schema_type.val))
         ELSE IF version.val = "2021.08.01"
         THEN Ok(System20210801)
         ELSE Err(UnsupportedSchemaVersion(schema_type.val, version.val))

\* mutant: accepts every version string of a "system" schema
parse_oof_schema_type_any_version(oof) ==
    LET schema == get_obj(oof, "schema") IN
    IF ~schema.ok
    THEN Err(MalformedOofInstruction("oof.schema", COULD_NOT_BE_PARSED_AS_OBJ))
    ELSE LET schema_type == get_str(schema.val, "type") IN
         IF ~schema_type.ok
         THEN Err(MalformedOofInstruction("oof.schema.type", COULD_NOT_BE_PARSED_AS_STRING))
         ELSE IF schema_type.val = "system"
         THEN LET version == get_str(schema.val, "version") IN
              IF ~version.ok
              THEN Err(MalformedOofInstruction("oof.schema.version",
                                               COULD_NOT_BE_PARSED_AS_STRING))
              ELSE Ok(System20210801)
         ELSE Err(UnsupportedSchemaType(schema_type.val))

parse_oof_schema_type(oof) ==
    LET schema == get_obj(oof, "schema") IN
    IF ~schema.ok
    THEN Err(MalformedOofInstruction("oof.schema", COULD_NOT_BE_PARSED_AS_OBJ))
    ELSE LET schema_type == get_str(schema.val, "type") IN
         IF ~schema_type.ok
         THEN Err(MalformedOofInstruction("oof.schema.type", COULD_NOT_BE_PARSED_AS_STRING))
         ELSE IF schema_type.val = "system"
         THEN LET version == get_str(schema.val, "version") IN
              IF ~version.ok
              THEN Err(MalformedOofInstruction("oof.schema.version",
                                               COULD_NOT_BE_PARSED_AS_STRING))
              ELSE IF version.val = "2021.08.01"
              THEN Ok(System20210801)
              ELSE Err(UnsupportedSchemaVersion(schema_type.val, version.val))
         ELSE Err(UnsupportedSchemaType(schema_type.val))

(***************************************************************************)
(* parse_oof_meta_maintainer and parse_oof_meta                            *)
(***************************************************************************)
parse_oof_meta_maintainer(meta) ==
    LET maintainer == get_obj(meta, "maintainer") IN
    IF ~maintainer.ok
    THEN Err(MalformedOofInstruction("meta.maintainer", COULD_NOT_BE_PARSED_AS_OBJ))
    ELSE LET maintainer_name == get_str(maintainer.val, "name") IN
         IF ~maintainer_name.ok
         THEN Err(MalformedOofInstruction("meta.maintainer.name",
                                          COULD_NOT_BE_PARSED_AS_STRING))
         ELSE Ok([name |-> maintainer_name.val,
                  contact |-> ResultOk(get_str(maintainer.val, "contact"))])

\* mutant: reads the license before the maintainer-or-homepage rule
parse_oof_meta_license_first(oof) ==
    LET meta == get_obj(oof, "meta") IN
    IF ~meta.ok
    THEN Err(MalformedOofInstruction("oof.meta", COULD_NOT_BE_PARSED_AS_STRING))
    ELSE LET maintainer == parse_oof_meta_maintainer(meta.val)
             homepage == get_str(meta.val, "homepage")
             license == get_str(meta.val, "license") IN
         IF ~license.ok
         THEN Err(MalformedOofInstruction("oof.meta.license", COULD_NOT_BE_PARSED_AS_STRING))
         ELSE IF ~maintainer.ok /\ ~homepage.ok
         THEN Err(MalformedOofInstruction("oof.meta.maintainer",
                                          MAINTAINER_OR_HOMEPAGE_REQUIRED))
         ELSE LET lowercased_license == to_lowercase(license.val) IN
              Ok([maintainer |-> ResultOk(maintainer),
                  homepage |-> ResultOk(homepage),
                  license |-> IF lowercased_license \in {LitRestricted, LitProprietary}
                              THEN Restricted
                              ELSE SPDXIdentifier(license.val)])

\* mutant: keeps the lower-cased license as the identifier
parse_oof_meta_lowercased_id(oof) ==
    LET meta == get_obj(oof, "meta") IN
    IF ~meta.ok
    THEN Err(MalformedOofInstruction("oof.meta", COULD_NOT_BE_PARSED_AS_STRING))
    ELSE LET maintainer == parse_oof_meta_maintainer(meta.val)
             homepage == get_str(meta.val, "homepage") IN
         IF ~maintainer.ok /\ ~homepage.ok
         THEN Err(MalformedOofInstruction("oof.meta.maintainer",
                                          MAINTAINER_OR_HOMEPAGE_REQUIRED))
         ELSE LET license == get_str(meta.val, "license") IN
              IF license.ok
              THEN LET lowercased_license == to_lowercase(license.val) IN
                   Ok([maintainer |-> ResultOk(maintainer),
                       homepage |-> ResultOk(homepage),
                       license |-> IF lowercased_license \in {LitRestricted, LitProprietary}
                                   THEN Restricted
                                   ELSE SPDXIdentifier(lowercased_license)])
              ELSE Err(MalformedOofInstruction("oof.meta.license",
                                               COULD_NOT_BE_PARSED_AS_STRING))

parse_oof_meta(oof) ==
    LET meta == get_obj(oof, "meta") IN
    IF ~meta.ok
    THEN Err(MalformedOofInstruction("oof.meta", COULD_NOT_BE_PARSED_AS_STRING))
    ELSE LET maintainer == parse_oof_meta_maintainer(meta.val)
             homepage == get_str(meta.val, "homepage") IN
         IF ~maintainer.ok /\ ~homepage.ok
         THEN Err(MalformedOofInstruction("oof.meta.maintainer",
                                          MAINTAINER_OR_HOMEPAGE_REQUIRED))
         ELSE LET license == get_str(meta.val, "license") IN
              IF license.ok
              THEN LET lowercased_license == to_lowercase(license.val) IN
                   Ok([maintainer |-> ResultOk(maintainer),
                       homepage |-> ResultOk(homepage),
                       license |-> IF lowercased_license \in {LitRestricted, LitProprietary}
                                   THEN Restricted
                                   ELSE SPDXIdentifier(license.val)])
              ELSE Err(MalformedOofInstruction("oof.meta.license",
                                               COULD_NOT_BE_PARSED_AS_STRING))

(***************************************************************************)
(* parse_using                                                             *)
(***************************************************************************)
\* Using::Git built from one well-formed entry
UsingGit(git, config_obj) ==
    [upstream |-> git,
     rev |-> ResultOk(get_str(config_obj, "rev")),
     shallow |-> LET s == get_bool(config_obj, "shallow") IN IF s.ok THEN s.val ELSE FALSE,
     bin |-> LET bin == get_str(config_obj, "bin") IN
             IF bin.ok THEN [executable |-> "UserProvided", name |-> bin.val]
                       ELSE [executable |-> "Discoverable", name |-> "git"]]

\* HashMap::insert
map_insert(m, key, value) ==
    [k \in DOMAIN m \cup {key} |-> IF k = key THEN value ELSE m[k]]

\* mutant: a malformed entry is skipped instead of ending the resolver
RECURSIVE parse_using_loop_skip_malformed(_, _, _)
parse_using_loop_skip_malformed(entries, i, result) ==
    IF i > Len(entries)
    THEN Ok(result)
    ELSE LET repo == entries[i][1]
             config_obj == value_get_obj(entries[i][2])
             git == IF config_obj.ok THEN get_str(config_obj.val, "git") ELSE Err(OverError)
         IN  IF git.ok
             THEN parse_using_loop_skip_malformed(entries, i + 1,
                      map_insert(result, repo, UsingGit(git.val, config_obj.val)))
             ELSE parse_using_loop_skip_malformed(entries, i + 1, result)

\* the for loop of parse_using from its i-th entry on
RECURSIVE parse_using_loop(_, _, _)
parse_using_loop(entries, i, result) ==
    IF i > Len(entries)
    THEN Ok(result)
    ELSE LET repo == entries[i][1]
             config_obj == value_get_obj(entries[i][2])
             git == IF config_obj.ok THEN get_str(config_obj.val, "git") ELSE Err(OverError)
         IN  IF git.ok
             THEN parse_using_loop(entries, i + 1,
                      map_insert(result, repo, UsingGit(git.val, config_obj.val)))
             ELSE Err(MalformedOofInstruction("using." \o repo,
                                              COULD_NOT_DETERMINE_REPO_TYPE))

parse_using_skip_malformed(config) ==
    LET using_obj == get_obj(config, "using") IN
    IF using_obj.ok
    THEN parse_using_loop_skip_malformed(obj_iter(using_obj.val), 1, <<>>)
    ELSE Err(MalformedOofInstruction("using", COULD_NOT_BE_PARSED_AS_OBJ))

parse_using(config) ==
    LET using_obj == get_obj(config, "using") IN
    IF using_obj.ok
    THEN parse_using_loop(obj_iter(using_obj.val), 1, <<>>)
    ELSE Err(MalformedOofInstruction("using", COULD_NOT_BE_PARSED_AS_OBJ))

(***************************************************************************)
(* parse_extends                                                           *)
(***************************************************************************)
\* all the elements' get_str() collected into one Result<Vec<String>>
RECURSIVE collect_strs(_, _)
collect_strs(objs, i) ==
    IF i > Len(objs)
    THEN Ok(<<>>)
    ELSE LET head == value_get_str(objs[i]) IN
         IF ~head.ok
         THEN Err(OverError)
         ELSE LET rest == collect_strs(objs, i + 1) IN
              IF rest.ok THEN Ok(<<head.val>> \o rest.val) ELSE rest

\* eobj.get_arr(key).and_then(to_vec).and_then(collect of get_str).ok()
str_list_opt(eobj, key) ==
    LET arr == get_arr(eobj, key) IN
    IF arr.ok THEN ResultOk(collect_strs(arr.val, 1)) ELSE None

\* using.get(&repo).unwrap(): a reference to the table's entry for repo, which is
\* the slot it points at and the Using it reads there
UsingRef(using_map, repo) == [slot |-> repo, target |-> using_map[repo]]

\* the Extends record pushed for one declaration
ExtendsRecord(using_map, repo, path, eobj) ==
    [repo |-> UsingRef(using_map, repo),
     path |-> path,
     pick |-> str_list_opt(eobj, "pick"),
     omit |-> str_list_opt(eobj, "omit")]

\* format!("extends[{}]", idx), idx counted from 0
extends_field(i) == "extends[" \o ToString(i - 1) \o "]"

\* mutant: reads path before it looks the repo up in the source table
RECURSIVE parse_extends_loop_path_first(_, _, _, _)
parse_extends_loop_path_first(arr, i, using_map, result) ==
    IF i > Len(arr)
    THEN Ok(result)
    ELSE LET eobj == value_get_obj(arr[i]) IN
         IF ~eobj.ok
         THEN Err(MalformedOofInstruction(extends_field(i), COULD_NOT_BE_PARSED_AS_OBJ))
         ELSE LET repo == get_str(eobj.val, "repo")
                  path == get_str(eobj.val, "path") IN
              IF ~repo.ok
              THEN Err(MalformedOofInstruction(extends_field(i) \o ".repo",
                                               COULD_NOT_BE_PARSED_AS_STRING))
              ELSE IF ~path.ok
              THEN Err(MalformedOofInstruction(extends_field(i) \o ".path",
                                               COULD_NOT_BE_PARSED_AS_STRING))
              ELSE IF repo.val \notin DOMAIN using_map
              THEN Err(ExtendingNonExistantRepo(repo.val))
              ELSE parse_extends_loop_path_first(arr, i + 1, using_map,
                       Append(result, ExtendsRecord(using_map, repo.val, path.val, eobj.val)))

\* mutant: a declaration equal to one already resolved is not pushed again
RECURSIVE parse_extends_loop_dedup(_, _, _, _)
parse_extends_loop_dedup(arr, i, using_map, result) ==
    IF i > Len(arr)
    THEN Ok(result)
    ELSE LET eobj == value_get_obj(arr[i]) IN
         IF ~eobj.ok
         THEN Err(MalformedOofInstruction(extends_field(i), COULD_NOT_BE_PARSED_AS_OBJ))
         ELSE LET repo == get_str(eobj.val, "repo") IN
              IF ~repo.ok
              THEN Err(MalformedOofInstruction(extends_field(i) \o ".repo",
                                               COULD_NOT_BE_PARSED_AS_STRING))
              ELSE IF repo.val \notin DOMAIN using_map
              THEN Err(ExtendingNonExistantRepo(repo.val))
              ELSE LET path == get_str(eobj.val, "path") IN
                   IF ~path.ok
                   THEN Err(MalformedOofInstruction(extends_field(i) \o ".path",
                                                    COULD_NOT_BE_PARSED_AS_STRING))
                   ELSE LET e == ExtendsRecord(using_map, repo.val, path.val, eobj.val) IN
                        parse_extends_loop_dedup(arr, i + 1, using_map,
                            IF \E j \in 1..Len(result) : result[j] = e
                            THEN result ELSE Append(result, e))

\* the for loop of parse_extends from its i-th element on
RECURSIVE parse_extends_loop(_, _, _, _)
parse_extends_loop(arr, i, using_map, result) ==
    IF i > Len(arr)
    THEN Ok(result)
    ELSE LET eobj == value_get_obj(arr[i]) IN
         IF ~eobj.ok
         THEN Err(MalformedOofInstruction(extends_field(i), COULD_NOT_BE_PARSED_AS_OBJ))
         ELSE LET repo == get_str(eobj.val, "repo") IN
              IF ~repo.ok
              THEN Err(MalformedOofInstruction(extends_field(i) \o ".repo",
                                               COULD_NOT_BE_PARSED_AS_STRING))
              ELSE IF repo.val \notin DOMAIN using_map
              THEN Err(ExtendingNonExistantRepo(repo.val))
              ELSE LET path == get_str(eobj.val, "path") IN
                   IF ~path.ok
                   THEN Err(MalformedOofInstruction(extends_field(i) \o ".path",
                                                    COULD_NOT_BE_PARSED_AS_STRING))
                   ELSE parse_extends_loop(arr, i + 1, using_map,
                            Append(result,
                                   ExtendsRecord(using_map, repo.val, path.val, eobj.val)))

parse_extends_path_first(config, using_map) ==
    LET arr == get_arr(config, "extends") IN
    IF arr.ok
    THEN parse_extends_loop_path_first(arr.val, 1, using_map, <<>>)
    ELSE Err(MalformedOofInstruction("extends", COULD_NOT_BE_PARSED_AS_ARR))

parse_extends_dedup(config, using_map) ==
    LET arr == get_arr(config, "extends") IN
    IF arr.ok
    THEN parse_extends_loop_dedup(arr.val, 1, using_map, <<>>)
    ELSE Err(MalformedOofInstruction("extends", COULD_NOT_BE_PARSED_AS_ARR))

parse_extends(config, using_map) ==
    LET arr == get_arr(config, "extends") IN
    IF arr.ok
    THEN parse_extends_loop(arr.val, 1, using_map, <<>>)
    ELSE Err(MalformedOofInstruction("extends", COULD_NOT_BE_PARSED_AS_ARR))

(***************************************************************************)
(* The documents enumerated.                                               *)
(***************************************************************************)
\* the one-to-one sequences over the set S: the orders iter() may yield its keys in
Orders(S) ==
    {o \in [1..Cardinality(S) -> S] : \A i, j \in 1..Cardinality(S) : o[i] = o[j] => i = j}

\* the sequences over S of length at most n
SeqsUpTo(S, n) == UNION {[1..k -> S] : k \in 0..n}

Document(oof, using_block, extends_arr) ==
    MkObj([oof |-> oof, using |-> using_block, extends |-> extends_arr])

ValidSchema == MkObj([type |-> StrV("system"), version |-> StrV("2021.08.01")])

SchemaChoices ==
    {Absent, IntV(0)} \cup
    {MkObj([type |-> ty, version |-> ve]) :
        ty \in {Absent, IntV(1), StrV("system"), StrV("user")},
        ve \in {Absent, IntV(20210801), StrV("2021.08.01"), StrV("2020.01.01")}}

char_to_uppercase(c) ==
    IF \E i \in 1..Len(LowerLetters) : LowerLetters[i] = c
    THEN UpperLetters[CHOOSE i \in 1..Len(LowerLetters) : LowerLetters[i] = c]
    ELSE c

\* w with its first k characters in upper case, for every k, and w with one
\* character in upper case, for every character
CaseVariants(w) ==
    {[i \in 1..Len(w) |-> IF i <= k THEN char_to_uppercase(w[i]) ELSE w[i]] : k \in 0..Len(w)}
    \cup
    {[i \in 1..Len(w) |-> IF i = k THEN char_to_uppercase(w[i]) ELSE w[i]] : k \in 1..Len(w)}

LicenseStrings ==
    CaseVariants(LitRestricted) \cup CaseVariants(LitProprietary) \cup
    {<<"M", "I", "T">>, <<"m", "i", "t">>, <<"G", "P", "L", "-", "3", ".", "0">>,
     <<"r", "e", "s", "t", "r", "i", "c", "t", "e">>,
     <<"R", "e", "s", "t", "r", "i", "c", "t", "e", "d", "-", "1">>,
     <<"p", "r", "o", "p", "r", "i", "e", "t", "a", "r", "i">>,
     <<>>}

MaintainerChoices ==
    {Absent, StrV("klardotsh"),
     MkObj([name |-> Absent, contact |-> StrV("josh@example")]),
     MkObj([name |-> IntV(7), contact |-> Absent]),
     MkObj([name |-> StrV("klardotsh"), contact |-> Absent]),
     MkObj([name |-> StrV("klardotsh"), contact |-> StrV("josh@example")])}

HomepageChoices == {Absent, IntV(80), StrV("https://example/oof")}

MetaChoices ==
    {Absent, StrV("meta")} \cup
    {MkObj([maintainer |-> m, homepage |-> h, license |-> l]) :
        m \in MaintainerChoices, h \in HomepageChoices,
        l \in {Absent, IntV(0)} \cup {StrV(s) : s \in LicenseStrings}}

ValidMeta ==
    MkObj([maintainer |-> Absent, homepage |-> StrV("https://example/oof"),
           license |-> StrV(<<"M", "I", "T">>)])

CoarseMetaChoices ==
    {Absent, ValidMeta,
     MkObj([maintainer |-> Absent, homepage |-> Absent, license |-> StrV(<<"M", "I", "T">>)]),
     MkObj([maintainer |-> Absent, homepage |-> Absent, license |-> Absent]),
     MkObj([maintainer |-> MkObj([name |-> StrV("klardotsh"), contact |-> Absent]),
            homepage |-> Absent, license |-> IntV(0)])}

ValidOof == MkObj([schema |-> ValidSchema, meta |-> ValidMeta])

\* the values of one entry of a using block
UsingEntryChoices ==
    {IntV(0),
     MkObj([git |-> Absent, rev |-> StrV("main"), shallow |-> Absent, bin |-> Absent]),
     MkObj([git |-> IntV(1), rev |-> Absent, shallow |-> Absent, bin |-> Absent]),
     MkObj([git |-> StrV("https://example/repo"), rev |-> Absent, shallow |-> Absent,
            bin |-> Absent]),
     MkObj([git |-> StrV("https://example/repo"), rev |-> StrV("main"),
            shallow |-> BoolV(TRUE), bin |-> StrV("/usr/bin/git")])}

GitEntry == MkObj([git |-> StrV("https://example/repo"), rev |-> Absent,
                   shallow |-> Absent, bin |-> Absent])

SourceNames == {"origin", "vendor", "mirror"}

\* the using blocks of at most MaxUsing entries, in every iteration order
UsingBlocks ==
    UNION {UNION {{ObjIter(f, o) : o \in Orders(N)} : f \in [N -> UsingEntryChoices]} :
           N \in {M \in SUBSET SourceNames : Cardinality(M) <= MaxUsing}}

\* using blocks whose entries are all well-formed
WellFormedUsingBlocks ==
    {ObjIter(<<>>, <<>>),
     ObjIter([n \in {"origin"} |-> GitEntry], <<"origin">>),
     ObjIter([n \in {"origin", "vendor"} |-> GitEntry], <<"origin", "vendor">>),
     ObjIter([n \in {"origin", "vendor"} |-> GitEntry], <<"vendor", "origin">>)}

CoarseUsingChoices ==
    {Absent,
     ObjIter([n \in {"origin"} |-> IntV(0)], <<"origin">>),
     ObjIter([n \in {"origin"} |-> GitEntry], <<"origin">>)}

ExtendsEntry(repo, path, pick, omit) ==
    MkObj([repo |-> repo, path |-> path, pick |-> pick, omit |-> omit])

\* the declarations of an extends array
ExtendsEntryChoices ==
    {ExtendsEntry(r, p, Absent, Absent) :
        r \in {Absent, StrV("origin"), StrV("vendor"), StrV("ghost")},
        p \in {Absent, StrV("base.oof"), StrV("alt.oof")}}
    \cup
    {ExtendsEntry(IntV(3), StrV("base.oof"), Absent, Absent),
     ExtendsEntry(StrV("origin"), StrV("base.oof"), ArrV(<<StrV("users")>>), Absent),
     ExtendsEntry(StrV("origin"), StrV("base.oof"), ArrV(<<IntV(1), IntV(2)>>),
                  ArrV(<<StrV("disks"), StrV("shells")>>)),
     ExtendsEntry(StrV("ghost"), IntV(4), StrV("users"), ArrV(<<>>)),
     ExtendsEntry(StrV("vendor"), StrV("base.oof"), ArrV(<<>>), IntV(0))}

\* the extends values: absent, not an array, an array of non-objects, and the
\* arrays of at most MaxExtends declarations (an over array holds one type)
ExtendsChoices ==
    {Absent, IntV(0), ArrV(<<IntV(1)>>), ArrV(<<StrV("origin"), StrV("origin")>>)} \cup
    {ArrV(a) : a \in SeqsUpTo(ExtendsEntryChoices, MaxExtends)}

CoarseExtendsChoices ==
    {Absent, ArrV(<<>>), ArrV(<<IntV(1)>>),
     ArrV(<<ExtendsEntry(StrV("ghost"), StrV("base.oof"), Absent, Absent)>>),
     ArrV(<<ExtendsEntry(StrV("origin"), Absent, Absent, Absent)>>),
     ArrV(<<ExtendsEntry(StrV("origin"), StrV("base.oof"), Absent, Absent)>>)}

\* documents that fail, or pass, each stage in every combination
PipelineDocs ==
    {Document(o, u, e) :
        o \in {Absent, IntV(0)} \cup
              {MkObj([schema |-> s, meta |-> m]) : s \in SchemaChoices, m \in CoarseMetaChoices},
        u \in CoarseUsingChoices, e \in CoarseExtendsChoices}

\* documents with a valid header and every meta block
MetaDocs ==
    {Document(MkObj([schema |-> ValidSchema, meta |-> m]),
              ObjIter([n \in {"origin"} |-> GitEntry], <<"origin">>), ArrV(<<>>)) :
        m \in MetaChoices}

\* documents with a valid header and meta block and every using block
UsingDocs ==
    {Document(ValidOof, u, e) :
        u \in UsingBlocks,
        e \in {ArrV(<<>>),
               ArrV(<<ExtendsEntry(StrV("origin"), StrV("base.oof"), Absent, Absent)>>)}}

\* documents with a valid header, meta block and using block and every extends value
ExtendsDocs ==
    {Document(ValidOof, u, e) : u \in WellFormedUsingBlocks, e \in ExtendsChoices}

(***************************************************************************)
(* from_over_obj, one step per stage.                                      *)
(***************************************************************************)
\* mutant: the source table is resolved before the meta block is parsed
StagesUsingBeforeMeta == <<"oof", "schema", "using", "meta", "extends", "rest", "done">>

\* the stages of from_over_obj in the order of its statements
Stages == <<"oof", "schema", "meta", "using", "extends", "rest", "done">>

\* the stage that follows stage s when s succeeds
StageAfter(s) == Stages[(CHOOSE i \in 1..Len(Stages) : Stages[i] = s) + 1]

InitOn(docs) ==
    /\ doc \in docs
    /\ pc = "oof"
    /\ oof_instruction_obj = Unassigned
    /\ oof_schema = Unassigned
    /\ oof_meta = Unassigned
    /\ target = Unassigned
    /\ using = Unassigned
    /\ extends = Unassigned
    /\ ret = Unassigned

Init == InitOn(PipelineDocs)
InitMeta == InitOn(MetaDocs)
InitUsing == InitOn(UsingDocs)
InitExtends == InitOn(ExtendsDocs)

GetOofInstruction ==
    /\ pc = "oof"
    /\ LET oof == get_obj(doc, "oof") IN
       IF oof.ok
       THEN /\ oof_instruction_obj' = Assigned(oof.val)
            /\ pc' = StageAfter("oof")
            /\ ret' = ret
       ELSE /\ ret' = Assigned(Err(MissingOofInstruction))
            /\ pc' = "done"
            /\ oof_instruction_obj' = oof_instruction_obj
    /\ UNCHANGED <<doc, oof_schema, oof_meta, target, using, extends>>

ParseOofSchemaType ==
    /\ pc = "schema"
    /\ LET r == parse_oof_schema_type(oof_instruction_obj.val) IN
       IF r.ok
       THEN /\ oof_schema' = Assigned(r.val)
            /\ pc' = StageAfter("schema")
            /\ ret' = ret
       ELSE /\ ret' = Assigned(r)
            /\ pc' = "done"
            /\ oof_schema' = oof_schema
    /\ UNCHANGED <<doc, oof_instruction_obj, oof_meta, target, using, extends>>

ParseOofMeta ==
    /\ pc = "meta"
    /\ LET r == parse_oof_meta(oof_instruction_obj.val) IN
       IF r.ok
       THEN /\ oof_meta' = Assigned(r.val)
            /\ pc' = StageAfter("meta")
            /\ ret' = ret
       ELSE /\ ret' = Assigned(r)
            /\ pc' = "done"
            /\ oof_meta' = oof_meta
    /\ UNCHANGED <<doc, oof_instruction_obj, oof_schema, target, using, extends>>

\* the hard-coded target block, then parse_using
ParseUsing ==
    /\ pc = "using"
    /\ target' = Assigned(TargetSelf)
    /\ LET r == parse_using(doc) IN
       IF r.ok
       THEN /\ using' = Assigned(r.val)
            /\ pc' = StageAfter("using")
            /\ ret' = ret
       ELSE /\ ret' = Assigned(r)
            /\ pc' = "done"
            /\ using' = using
    /\ UNCHANGED <<doc, oof_instruction_obj, oof_schema, oof_meta, extends>>

ParseExtends ==
    /\ pc = "extends"
    /\ LET r == parse_extends(doc, using.val) IN
       IF r.ok
       THEN /\ extends' = Assigned(r.val)
            /\ pc' = StageAfter("extends")
            /\ ret' = ret
       ELSE /\ ret' = Assigned(r)
            /\ pc' = "done"
            /\ extends' = extends
    /\ UNCHANGED <<doc, oof_instruction_obj, oof_schema, oof_meta, target, using>>

\* mutant: the parsed header is returned as the compiled file
RestReturnsOofFile ==
    /\ pc = "rest"
    /\ ret' = Assigned(Ok([schema |-> oof_schema.val, meta |-> oof_meta.val]))
    /\ pc' = StageAfter("rest")
    /\ UNCHANGED <<doc, oof_instruction_obj, oof_schema, oof_meta, target, using, extends>>

RestNotImplemented ==
    /\ pc = "rest"
    /\ ret' = Assigned(Err(Generic("rest not implemented")))
    /\ pc' = StageAfter("rest")
    /\ UNCHANGED <<doc, oof_instruction_obj, oof_schema, oof_meta, target, using, extends>>

Next ==
    \/ GetOofInstruction
    \/ ParseOofSchemaType
    \/ ParseOofMeta
    \/ ParseUsing
    \/ ParseExtends
    \/ RestNotImplemented

Spec == Init /\ [][Next]_vars
SpecMeta == InitMeta /\ [][Next]_vars
SpecUsing == InitUsing /\ [][Next]_vars
SpecExtends == InitExtends /\ [][Next]_vars

(***************************************************************************)
(* What the document holds, read independently of the parsers.             *)
(***************************************************************************)
Returned == pc = "done"
\* from_over_obj has returned r
Returns(r) == ret = Assigned(r)

DocHasOof == "oof" \in DOMAIN doc.v /\ doc.v["oof"].t = "Obj"
DocOofFields == doc.v["oof"].v

DocHasSchema == DocHasOof /\ "schema" \in DOMAIN DocOofFields /\ DocOofFields["schema"].t = "Obj"
DocSchemaFields == DocOofFields["schema"].v
\* schema.type, schema.version read as strings
DocTypeIsStr == DocHasSchema /\ "type" \in DOMAIN DocSchemaFields /\ DocSchemaFields["type"].t = "Str"
DocVersionIsStr ==
    DocHasSchema /\ "version" \in DOMAIN DocSchemaFields /\ DocSchemaFields["version"].t = "Str"
DocType == DocSchemaFields["type"].v
DocVersion == DocSchemaFields["version"].v

DocHasMeta == DocHasOof /\ "meta" \in DOMAIN DocOofFields /\ DocOofFields["meta"].t = "Obj"
DocMetaFields == DocOofFields["meta"].v
\* a maintainer can be read: an object with a string name
DocMaintainerReadable ==
    /\ "maintainer" \in DOMAIN DocMetaFields
    /\ DocMetaFields["maintainer"].t = "Obj"
    /\ "name" \in DOMAIN DocMetaFields["maintainer"].v
    /\ DocMetaFields["maintainer"].v["name"].t = "Str"
DocHomepageReadable ==
    "homepage" \in DOMAIN DocMetaFields /\ DocMetaFields["homepage"].t = "Str"
DocLicenseIsStr == "license" \in DOMAIN DocMetaFields /\ DocMetaFields["license"].t = "Str"
DocLicense == DocMetaFields["license"].v

DocHasUsing == "using" \in DOMAIN doc.v /\ doc.v["using"].t = "Obj"
DocUsing == doc.v["using"]
\* the entry named n of the using block is not an object with a string git field
UsingEntryMalformed(n) ==
    ~(/\ DocUsing.v[n].t = "Obj"
      /\ "git" \in DOMAIN DocUsing.v[n].v
      /\ DocUsing.v[n].v["git"].t = "Str")
\* the first malformed entry that iter() yields
FirstMalformedUsingEntry ==
    DocUsing.order[CHOOSE i \in 1..Len(DocUsing.order) :
                      /\ UsingEntryMalformed(DocUsing.order[i])
                      /\ \A j \in 1..(i - 1) : ~UsingEntryMalformed(DocUsing.order[j])]

DocHasExtends == "extends" \in DOMAIN doc.v /\ doc.v["extends"].t = "Arr"
DocExtends == doc.v["extends"].v
EntryIsObj(i) == DocExtends[i].t = "Obj"
EntryHasStr(i, key) ==
    EntryIsObj(i) /\ key \in DOMAIN DocExtends[i].v /\ DocExtends[i].v[key].t = "Str"
EntryStr(i, key) == DocExtends[i].v[key].v
\* the i-th extends entry names a repo that is not a key of the source table
EntryDangling(i) == EntryHasStr(i, "repo") /\ EntryStr(i, "repo") \notin DOMAIN using.val
\* the i-th extends entry resolves: an object, a repo of the table, a string path
EntryResolves(i) ==
    /\ EntryHasStr(i, "repo")
    /\ EntryStr(i, "repo") \in DOMAIN using.val
    /\ EntryHasStr(i, "path")

\* two characters are the same letter in either case, or the same character
SameIgnoringCase(c, d) ==
    \/ c = d
    \/ \E k \in 1..Len(UpperLetters) : {c, d} = {UpperLetters[k], LowerLetters[k]}
\* two strings are equal under case-insensitive comparison
EqIgnoringCase(a, b) ==
    Len(a) = Len(b) /\ \A i \in 1..Len(a) : SameIgnoringCase(a[i], b[i])

(***************************************************************************)
(* C1                                                                      *)
(***************************************************************************)
\* The header, meta and using stages succeeded and parse_extends has returned
ExtendsStageReturned ==
    Returned /\ oof_schema.assigned /\ oof_meta.assigned /\ using.assigned /\ DocHasExtends

\* C1 as stated: when the header, meta and using stages succeed and the extends
\* array holds an entry whose repo string is not a key of the source table,
\* from_over_obj returns ExtendingNonExistantRepo with that entry's repo string.
C1_AnyDanglingEntryIsReported ==
    ExtendsStageReturned =>
        \A i \in 1..Len(DocExtends) :
            EntryDangling(i) => Returns(Err(ExtendingNonExistantRepo(EntryStr(i, "repo"))))

\* C1 amended: the same, for an entry whose repo string is not a key of the
\* source table and before which every entry of the array resolves (is an
\* object with a repo string of the table and a string path); the entry's own
\* path, pick and omit may be anything.
C1_FirstDanglingEntryIsReported ==
    ExtendsStageReturned =>
        \A i \in 1..Len(DocExtends) :
            (EntryDangling(i) /\ \A j \in 1..(i - 1) : EntryResolves(j))
                => Returns(Err(ExtendingNonExistantRepo(EntryStr(i, "repo"))))

\* a second entry with an undeclared repo, a path that is no string and a pick
\* that is no array is reported after a first entry that resolves
C1_Witness ==
    /\ ExtendsStageReturned
    /\ Len(DocExtends) = 2
    /\ EntryResolves(1)
    /\ EntryDangling(2)
    /\ ~EntryHasStr(2, "path")
    /\ "pick" \in DOMAIN DocExtends[2].v /\ DocExtends[2].v["pick"].t # "Arr"
    /\ Returns(Err(ExtendingNonExistantRepo("ghost")))

(***************************************************************************)
(* C2                                                                      *)
(***************************************************************************)
\* the outcome of the k-th stage (instruction block, schema, meta, using,
\* extends) on the document, each read from the document alone
StageOutcome(k) ==
    CASE k = 1 -> IF DocHasOof THEN Ok(doc.v["oof"]) ELSE Err(MissingOofInstruction)
      [] k = 2 -> parse_oof_schema_type(doc.v["oof"])
      [] k = 3 -> parse_oof_meta(doc.v["oof"])
      [] k = 4 -> parse_using(doc)
      [] k = 5 -> parse_extends(doc, parse_using(doc).val)

\* the k-th stage would fail on the document (the schema and meta stages read
\* the instruction block, the extends stage reads the source table)
StageFails(k) ==
    CASE k = 1 -> ~DocHasOof
      [] k \in {2, 3} -> DocHasOof /\ ~StageOutcome(k).ok
      [] k = 4 -> ~StageOutcome(4).ok
      [] k = 5 -> StageOutcome(4).ok /\ ~StageOutcome(5).ok

\* C2: from_over_obj runs its stages in the order instruction block, schema,
\* meta, using, extends (a stage's result exists only once the stage before it
\* has succeeded), and returns the error of the earliest stage that fails,
\* whatever later stages would fail too.
C2_EarliestFailingStageIsReturned ==
    /\ oof_schema.assigned => oof_instruction_obj.assigned
    /\ oof_meta.assigned => oof_schema.assigned
    /\ using.assigned => oof_meta.assigned
    /\ extends.assigned => using.assigned
    /\ Returned =>
        \A k \in 1..5 :
            (StageFails(k) /\ \A j \in 1..(k - 1) : ~StageFails(j)) => Returns(StageOutcome(k))

\* the meta, using and extends stages would all fail, and the meta error is returned
C2_Witness ==
    /\ Returned
    /\ ~StageFails(1) /\ ~StageFails(2)
    /\ StageFails(3) /\ StageFails(4)
    /\ ~parse_extends(doc, <<>>).ok
    /\ Returns(StageOutcome(3))
    /\ ~using.assigned /\ ~extends.assigned

(***************************************************************************)
(* C3                                                                      *)
(***************************************************************************)
\* C3: on a meta block in which neither a maintainer nor a string homepage
\* can be read, parse_oof_meta fails with the maintainer-or-homepage problem,
\* whatever the license field holds.
C3_MaintainerOrHomepageBeforeLicense ==
    (Returned /\ oof_schema.assigned /\ DocHasMeta
        /\ ~DocMaintainerReadable /\ ~DocHomepageReadable)
    => /\ ~ret.val.ok
       /\ ret.val.err.e = "MalformedOofInstruction"
       /\ ret.val.err.problem = MAINTAINER_OR_HOMEPAGE_REQUIRED

\* the rule is reported on a meta block whose license is not a string
C3_Witness ==
    /\ Returned /\ oof_schema.assigned /\ DocHasMeta
    /\ ~DocMaintainerReadable /\ ~DocHomepageReadable
    /\ "license" \in DOMAIN DocMetaFields /\ ~DocLicenseIsStr
    /\ "maintainer" \in DOMAIN DocMetaFields
    /\ ret.val.err.problem = MAINTAINER_OR_HOMEPAGE_REQUIRED

(***************************************************************************)
(* C4                                                                      *)
(***************************************************************************)
\* C4: on a document whose instruction block has an object schema with a type
\* string other than "system", from_over_obj returns UnsupportedSchemaType
\* with that string, whatever version, meta, using and extends hold.
C4_UnsupportedTypeIsReported ==
    (Returned /\ DocTypeIsStr /\ DocType # "system")
    => Returns(Err(UnsupportedSchemaType(DocType)))

\* the type is reported on a document with no version, meta, using or extends
C4_Witness ==
    /\ Returned /\ DocTypeIsStr /\ DocType = "user"
    /\ "version" \notin DOMAIN DocSchemaFields
    /\ ~DocHasMeta /\ ~DocHasUsing /\ ~DocHasExtends
    /\ Returns(Err(UnsupportedSchemaType("user")))

(***************************************************************************)
(* C5                                                                      *)
(***************************************************************************)
\* C5: on a document with schema.type "system" and a version string other than
\* "2021.08.01", from_over_obj returns UnsupportedSchemaVersion with "system"
\* and that version; the descriptor System20210801 is produced only for the
\* pair ("system", "2021.08.01").
C5_UnsupportedVersionIsReported ==
    /\ (Returned /\ DocTypeIsStr /\ DocType = "system"
            /\ DocVersionIsStr /\ DocVersion # "2021.08.01")
       => Returns(Err(UnsupportedSchemaVersion("system", DocVersion)))
    /\ oof_schema = Assigned(System20210801)
       => (DocTypeIsStr /\ DocType = "system"
            /\ DocVersionIsStr /\ DocVersion = "2021.08.01")

\* an older version of the system schema is reported
C5_Witness ==
    /\ Returned /\ DocTypeIsStr /\ DocType = "system"
    /\ DocVersionIsStr /\ DocVersion = "2020.01.01"
    /\ oof_schema = Unassigned
    /\ Returns(Err(UnsupportedSchemaVersion("system", "2020.01.01")))

(***************************************************************************)
(* C6                                                                      *)
(***************************************************************************)
\* parse_using was called on a using block, and from_over_obj has returned
UsingStageReturned == Returned /\ oof_schema.assigned /\ oof_meta.assigned /\ DocHasUsing

\* C6 as stated: for every entry of the using block that is not an object
\* with a string git field, parse_using returns MalformedOofInstruction with
\* field "using.<name>" for that entry and the repo-type problem, and no table.
C6_AnyMalformedEntryIsReported ==
    UsingStageReturned =>
        \A n \in DOMAIN DocUsing.v :
            UsingEntryMalformed(n)
                => /\ Returns(Err(MalformedOofInstruction("using." \o n,
                                                          COULD_NOT_DETERMINE_REPO_TYPE)))
                   /\ ~using.assigned

\* C6 amended: when the using block holds such an entry, parse_using returns
\* MalformedOofInstruction with the repo-type problem and field "using.<name>"
\* for the first such entry in iteration order, and no table, whatever the
\* other entries are.
C6_FirstMalformedEntryIsReported ==
    (UsingStageReturned /\ \E n \in DOMAIN DocUsing.v : UsingEntryMalformed(n))
    => /\ Returns(Err(MalformedOofInstruction("using." \o FirstMalformedUsingEntry,
                                              COULD_NOT_DETERMINE_REPO_TYPE)))
       /\ ~using.assigned

\* a well-formed entry is iterated first, then a malformed one, which is reported
C6_Witness ==
    /\ UsingStageReturned
    /\ Len(DocUsing.order) = 2
    /\ ~UsingEntryMalformed(DocUsing.order[1])
    /\ UsingEntryMalformed(DocUsing.order[2])
    /\ DocUsing.v[DocUsing.order[2]].t = "Obj"
    /\ Returns(Err(MalformedOofInstruction("using." \o DocUsing.order[2],
                                           COULD_NOT_DETERMINE_REPO_TYPE)))
    /\ ~using.assigned

(***************************************************************************)
(* C7                                                                      *)
(***************************************************************************)
\* C7: when parse_oof_meta succeeds, the license is Restricted exactly when
\* the license string equals "restricted" or "proprietary" ignoring case, and
\* is otherwise SPDXIdentifier of the string as written.
C7_LicenseClassification ==
    oof_meta.assigned =>
        /\ oof_meta.val.license = Restricted
            <=> (\/ EqIgnoringCase(DocLicense, LitRestricted)
                 \/ EqIgnoringCase(DocLicense, LitProprietary))
        /\ oof_meta.val.license # Restricted
            => oof_meta.val.license = SPDXIdentifier(DocLicense)

\* an identifier in upper case is kept in upper case
C7_Witness ==
    /\ oof_meta.assigned
    /\ DocLicense = <<"G", "P", "L", "-", "3", ".", "0">>
    /\ oof_meta.val.license = SPDXIdentifier(<<"G", "P", "L", "-", "3", ".", "0">>)

(***************************************************************************)
(* C8                                                                      *)
(***************************************************************************)
\* the field names the meta block, relative to the instruction block or to the document
NamesMetaBlock(field_name) == field_name \in {"meta", "oof.meta"}

\* C8: when the instruction block has no meta sub-block, or meta is not an
\* object, parse_oof_meta fails with MalformedOofInstruction whose field is the
\* meta block and whose problem is the not-an-object text.
C8_MissingMetaIsNotAnObject ==
    (Returned /\ oof_schema.assigned /\ ~DocHasMeta)
    => /\ ~ret.val.ok
       /\ ret.val.err.e = "MalformedOofInstruction"
       /\ NamesMetaBlock(ret.val.err.field_name)
       /\ ret.val.err.problem = COULD_NOT_BE_PARSED_AS_OBJ

(***************************************************************************)
(* C9                                                                      *)
(***************************************************************************)
\* the instruction block, schema, meta, using and extends stages all succeed
AllStagesSucceed == \A k \in 1..5 : ~StageFails(k)

\* C9: from_over_obj returns Generic exactly when every stage succeeded on the
\* document, and never returns a success value.
C9_GenericOnlyAfterAllStages ==
    Returned =>
        /\ ~ret.val.ok
        /\ ret.val.err.e = "Generic" <=> AllStagesSucceed

\* a document that passes every stage gets Generic
C9_Witness ==
    /\ Returned
    /\ AllStagesSucceed
    /\ extends.assigned /\ Len(extends.val) = 1
    /\ Returns(Err(Generic("rest not implemented")))

(***************************************************************************)
(* C10                                                                     *)
(***************************************************************************)
\* C10: when parse_extends succeeds on an array of n declarations, its output
\* has n records, the i-th with the i-th declaration's path and with a source
\* reference to the table's entry keyed by the i-th declaration's repo string,
\* which is an entry of the table.
C10_OneRecordPerDeclarationInOrder ==
    extends.assigned =>
        /\ Len(extends.val) = Len(DocExtends)
        /\ \A i \in 1..Len(DocExtends) :
            /\ extends.val[i].path = EntryStr(i, "path")
            /\ EntryStr(i, "repo") \in DOMAIN using.val
            /\ extends.val[i].repo.slot = EntryStr(i, "repo")
            /\ extends.val[i].repo.target = using.val[EntryStr(i, "repo")]

\* the same declaration twice yields two records
C10_Witness ==
    /\ extends.assigned
    /\ Len(DocExtends) = 2
    /\ DocExtends[1] = DocExtends[2]
    /\ Len(extends.val) = 2
    /\ extends.val[1] = extends.val[2]

====
